---- MODULE Spec2Model ----
(***************************************************************************)
(* RunInSubst: several instances of the tool run on one machine.  Each     *)
(* parses <letter>=<path> tokens into its table, takes an exclusive lock   *)
(* file in every source directory (ascending letter order), maps every     *)
(* letter with subst.exe, verifies the mapping by enumeration, repairs a   *)
(* mismatch under a second lock file, runs the child and cleans up.        *)
(*                                                                         *)
(* Strings are sequences of one-character strings.  The machine state      *)
(* shared by the instances is the subst table (live) and the lock files    *)
(* held open; everything else is private to an instance.                   *)
(***************************************************************************)
EXTENDS Integers, Sequences, FiniteSets, TLC

\* ------------------------------------------------------------ constants
NUMBER_DEFINABLE_SUBST == 26
MIN_SUBST_LENGTH == 3
SUBST_START_OFFSET == 2

\* MAPPED_PATH_STRING, the device-namespace prefix of an enumerated target.
MAPPED_PATH_STRING == <<"\\", "?", "?", "\\">>

\* ------------------------------------------------------------ bounds
\* Number of concurrent instances of the tool.
NumInst == 2
\* Child exit codes 0..MaxChildExit are tried, beside the two DWORD extremes.
MaxChildExit == 1
\* The map/verify loop counter of a slot saturates here.
MaxIter == 3

Inst == 1..NumInst
None == <<"<null>">>

\* ------------------------------------------------------------ characters
UpperChars ==
    <<"A", "B", "C", "D", "E", "F", "G", "H", "I", "J", "K", "L", "M",
      "N", "O", "P", "Q", "R", "S", "T", "U", "V", "W", "X", "Y", "Z">>
LowerChars ==
    <<"a", "b", "c", "d", "e", "f", "g", "h", "i", "j", "k", "l", "m",
      "n", "o", "p", "q", "r", "s", "t", "u", "v", "w", "x", "y", "z">>

\* The two cases of a letter, as tables.
LowerOf == [c \in {UpperChars[k] : k \in 1..26} |->
               LowerChars[CHOOSE k \in 1..26 : UpperChars[k] = c]]
UpperOf == [c \in {LowerChars[k] : k \in 1..26} |->
               UpperChars[CHOOSE k \in 1..26 : LowerChars[k] = c]]
\* static_cast<int>(c) of an upper-case letter: 65..90.
UpperCode == [c \in DOMAIN LowerOf |-> 64 + (CHOOSE k \in 1..26 : UpperChars[k] = c)]

\* F(arg), with arg evaluated once, whatever F does with it.
Once(F(_), arg) == CHOOSE r \in {F(v) : v \in {arg}} : TRUE

\* ::_totlower / ::tolower on one character.
ToLowerChar(c) == IF c \in DOMAIN LowerOf THEN LowerOf[c] ELSE c
\* ::_totupper on one character.
ToUpperChar(c) == IF c \in DOMAIN UpperOf THEN UpperOf[c] ELSE c
\* isalpha.
IsAlpha(c) == c \in DOMAIN LowerOf \/ c \in DOMAIN UpperOf
\* static_cast<int>(c): 65..90 for A..Z, 97..122 for a..z; other characters
\* are not told apart (0).
CharCode(c) ==
    IF c \in DOMAIN LowerOf THEN UpperCode[c]
    ELSE IF c \in DOMAIN UpperOf THEN UpperCode[UpperOf[c]] + 32
    ELSE 0

ToLowerStr(s) ==
    LET Lower(v) == [k \in 1..Len(v) |-> ToLowerChar(v[k])]
    IN  Once(Lower, s)

\* "make sure there is a trailing '\\'".
WithTrailingSlash(s) ==
    LET Slashed(v) == IF Len(v) > 0 /\ v[Len(v)] = "\\" THEN v ELSE Append(v, "\\")
    IN  Once(Slashed, s)

\* wcsstr(hay, needle) == hay: needle is a prefix of hay.
IsPrefix(needle, hay) ==
    /\ Len(needle) <= Len(hay)
    /\ \A k \in 1..Len(needle) : hay[k] = needle[k]

\* The tail of s after its first n characters (s + n).
Tail_n(s, n) == SubSeq(s, n + 1, Len(s))

\* ------------------------------------------------------------ file system
\* The directories of the machine, in the canonical form the file system
\* compares names in (case-insensitive, one trailing separator).
DirA == <<"c", ":", "\\", "a", "\\">>
DirB == <<"c", ":", "\\", "b", "\\">>
DirS == <<"c", ":", "\\", "a", "\\", "s", "\\">>
DirD == <<"c", ":", "\\", "a", "\\", "s", "\\", "d", "\\">>
DirW == <<"c", ":", "\\", "w", "\\">>
Directories == {DirA, DirB, DirS, DirD, DirW}

\* GetFileAttributes(path) names an existing directory.
IsDirectory(path) == WithTrailingSlash(ToLowerStr(path)) \in Directories

\* ------------------------------------------------------------ the table
\* _tagSubstNode(drive, srcDir): a new node of the table.
SUBST_NODE(drive, srcDir) ==
    [szDriveLetter |-> drive, szSourceDirectory |-> srcDir,
     szMappedPath |-> None, hLockFile |-> "invalid"]

\* The requested slots of a table (the non-null entries of
\* pOrderedSubstList), and the next one at or after index k.
Slots(list) == DOMAIN list
SlotsFrom(list, k) == {n \in DOMAIN list : n >= k}
NextSlot(list, k) ==
    IF SlotsFrom(list, k) = {} THEN NUMBER_DEFINABLE_SUBST
    ELSE CHOOSE n \in SlotsFrom(list, k) : \A m \in SlotsFrom(list, k) : n <= m

\* ------------------------------------------------------------ parsing
\* "Second character a '=' and first a letter", and long enough.
IsMappingToken(arg) ==
    /\ Len(arg) >= MIN_SUBST_LENGTH
    /\ arg[2] = "="
    /\ arg[1] # "="
    /\ IsAlpha(arg[1])

\* wcscpy_s(dest, sizeInWords, src): the copy is made only when src and its
\* terminator fit in sizeInWords; otherwise the invalid-parameter handler runs
\* and, if it returns, dest is the empty string.
WcscpyFits(sizeInWords, src) == Len(src) + 1 <= sizeInWords

\* The outcomes of ParseSubstSourcesAndTargets from argv[k] on, as records:
\* exit (the function returned true), crashed (the run-time library ended
\* the process), the table and the index of the executable (-1: none).
RECURSIVE ParseFrom(_, _, _)
ParseFrom(args, k, list) ==
    IF k > Len(args)
    THEN {[exit |-> FALSE, crashed |-> FALSE, list |-> list, exe |-> -1]}
    ELSE IF ~IsMappingToken(args[k])
    THEN {[exit |-> FALSE, crashed |-> FALSE, list |-> list, exe |-> k]}
    ELSE LET substTarget == ToUpperChar(args[k][1])
             substSource ==
                 WithTrailingSlash(ToLowerStr(Tail_n(args[k], SUBST_START_OFFSET)))
             substTargetValue == CharCode(substTarget)
             n == substTargetValue - 65
         IN  IF substTargetValue < 65 \/ substTargetValue > 90
             THEN {[exit |-> TRUE, crashed |-> FALSE, list |-> list, exe |-> -1]}
             ELSE IF n \in DOMAIN list
             THEN \* "If there was a map entry for this drive, just update it."
                  IF WcscpyFits(Len(substSource), substSource)
                  THEN ParseFrom(args, k + 1,
                                 [list EXCEPT ![n].szSourceDirectory = substSource])
                  ELSE {[exit |-> FALSE, crashed |-> TRUE, list |-> list, exe |-> -1]}
                       \cup ParseFrom(args, k + 1,
                                      [list EXCEPT ![n].szSourceDirectory = <<>>])
             ELSE IF ~IsDirectory(substSource)
             THEN {[exit |-> TRUE, crashed |-> FALSE, list |-> list, exe |-> -1]}
             ELSE ParseFrom(args, k + 1,
                            list @@ (n :> SUBST_NODE(substTarget, substSource)))

ParseSubstSourcesAndTargets(args) == ParseFrom(args, 1, <<>>)

\* ------------------------------------------------------------ lock files
\* SUBST_FILE_NAME, L".SubstLock".
SUBST_FILE_NAME == <<".", "S", "u", "b", "s", "t", "L", "o", "c", "k">>

\* The character with a given code, for the codes the program computes.
WChar(code) ==
    CASE code = 58 -> ":"
      [] code = 92 -> "\\"
      [] code = 150 -> "<U+0096>"
      [] OTHER -> "<?>"
WCode(c) ==
    CASE c = ":" -> 58
      [] c = "\\" -> 92
      [] c = "<NUL>" -> 0
      [] OTHER -> CharCode(c)

\* The lock file of a slot's source directory: szSourceDirectory, then
\* SUBST_FILE_NAME.
SourceLockPath(node) == node.szSourceDirectory \o SUBST_FILE_NAME

\* The path the mapping loop opens on a mismatch: the drive letter, then the
\* one character  L':' + L'\\' + L'\0'  (an integer sum, converted back to a
\* character by operator+=), then SUBST_FILE_NAME.
DriveLockPath(node) ==
    <<node.szDriveLetter, WChar(WCode(":") + WCode("\\") + WCode("<NUL>"))>>
        \o SUBST_FILE_NAME

\* A path is absolute when it starts with <letter>:\ ; a relative path names
\* a file in the current directory of the process.  Names compare without
\* case.
IsAbsolute(path) == Len(path) >= 3 /\ IsAlpha(path[1]) /\ path[2] = ":" /\ path[3] = "\\"
FullPath(dir, path) ==
    ToLowerStr(IF IsAbsolute(path) THEN path ELSE WithTrailingSlash(dir) \o path)

\* ------------------------------------------------------------ inputs
\* Raw paths as they appear on a command line, and command-line tokens.
PathA == <<"c", ":", "\\", "a">>
PathAUpper == <<"C", ":", "\\", "A", "\\">>
PathB == <<"c", ":", "\\", "b">>
PathS == <<"c", ":", "\\", "a", "\\", "s">>
PathZ == <<"c", ":", "\\", "z">>
Tok(letter, path) == <<letter, "=">> \o path
Program == <<"x">>
NoProgram == <<"q">>
\* The programs CreateProcess can start.
Executables == {Program}

\* The command lines (argv[1..]) an instance is started with.
ArgvChoices ==
    { <<Tok("A", PathA), Program>>,
      <<Tok("a", PathS), Program>>,
      <<Tok("A", PathAUpper), Tok("B", PathB), Program>>,
      <<Tok("A", PathB), Tok("B", PathA), Program>>,
      <<Tok("A", PathA), Tok("B", PathA), Program>>,
      <<Tok("A", PathA), Tok("B", PathB), Tok("B", PathZ), Program>>,
      <<Tok("A", PathZ), Program>>,
      <<Program>>,
      <<Tok("B", PathB), NoProgram>> }

\* Current directories an instance is started in (as GetCurrentDirectory
\* returns them).
CwdChoices == { <<"C", ":", "\\", "A", "\\", "S">>, <<"c", ":", "\\", "w">> }

\* Mappings left on the machine by earlier processes: letter index -> target
\* as subst.exe stores it.
StaleTarget == <<"C", ":", "\\", "A">>
LiveChoices ==
    { <<>>, (0 :> StaleTarget), (0 :> StaleTarget) @@ (1 :> StaleTarget) }

\* Directories in which a lock file cannot be created (access denied).
DeniedChoices == { {}, {DirB}, {DirW} }

\* A DWORD is a pair <<high word, low word>> of 16-bit words; an int is an
\* integer in -2^31 .. 2^31 - 1.
DWORD(hi, lo) == <<hi, lo>>
\* The exit codes a child can end with.
ChildExitCodes ==
    {DWORD(0, c) : c \in 0..MaxChildExit} \cup {DWORD(32768, 0), DWORD(65535, 65535)}

\* (int)exitCode: the same 32 bits, read as two's complement.
ToInt(dword) ==
    IF dword[1] >= 32768 THEN (dword[1] - 65536) * 65536 + dword[2]
    ELSE dword[1] * 65536 + dword[2]
\* The int returned by main, as the exit code of the process.
ToDWORD(int) ==
    LET lo == int % 65536
    IN  DWORD(((int - lo) \div 65536) % 65536, lo)

\* ------------------------------------------------------------ state
VARIABLES
    argv,                 \* per instance: the command line, argv[1..]
    currentDirectory,     \* per instance: what GetCurrentDirectory returns
    denied,               \* directories where creating a file is denied
    substWorks,           \* whether subst.exe can be started on this machine
    live,                 \* the machine's subst table: letter index -> target
    pOrderedSubstList,    \* per instance: the table, letter index -> node
    executableToRunIndex, \* per instance
    pc,                   \* per instance: where the process is
    i,                    \* per instance: the loop index of the running loop
    driveLockHandles,     \* per instance: open handles from the mapping loop
    errorCode,            \* per instance: what ExecuteProcess returned (int)
    exitCode,             \* per instance: the exit code of the process (DWORD)
    newCurrentDir,        \* per instance: the child's working directory
    childExitCode,        \* per instance: the exit code the child ended with
    waiting,              \* per instance: the contention it is waiting on
    verified,             \* per instance: slots that passed verification
    cleaned,              \* per instance: slots unmapped by the cleanup loop
    iters                 \* per instance: MapDrive calls for the current slot

vars ==
    <<argv, currentDirectory, denied, substWorks, live, pOrderedSubstList,
      executableToRunIndex, pc, i, driveLockHandles, errorCode, exitCode,
      newCurrentDir, childExitCode, waiting, verified, cleaned, iters>>

envVars == <<argv, currentDirectory, denied, substWorks>>

\* A process that has ended holds nothing: the OS closed its handles.
Ended(p) == pc[p] \in {"done", "crashed"}

\* The lock files an instance holds open, as full paths.
SourceLocksHeld(p) ==
    IF Ended(p) THEN {}
    ELSE {FullPath(currentDirectory[p], SourceLockPath(pOrderedSubstList[p][n])) :
            n \in {m \in DOMAIN pOrderedSubstList[p] :
                        pOrderedSubstList[p][m].hLockFile = "open"}}
DriveLocksHeld(p) == IF Ended(p) THEN {} ELSE driveLockHandles[p]
OpenFiles(p) == SourceLocksHeld(p) \cup DriveLocksHeld(p)

\* The directory part of a full path (to its last separator).
DirOf(path) ==
    LET ToLastSeparator(v) ==
            LET separators == {k \in 1..Len(v) : v[k] = "\\"}
            IN  IF separators = {} THEN <<>>
                ELSE SubSeq(v, 1, CHOOSE k \in separators :
                                      \A j \in separators : j <= k)
    IN  Once(ToLastSeparator, path)

\* CreateFile(path, GENERIC_WRITE, FILE_SHARE_READ, CREATE_ALWAYS) by p:
\* "ok", "sharing" (ERROR_SHARING_VIOLATION: some handle to the file is open)
\* or "error" (any other failure).
CreateFile(p, path) ==
    LET Open(full) ==
            IF DirOf(full) \notin Directories \/ DirOf(full) \in denied
            THEN "error"
            ELSE IF \E q \in Inst : full \in OpenFiles(q) THEN "sharing"
            ELSE "ok"
    IN  Once(Open, FullPath(currentDirectory[p], path))

\* ------------------------------------------------------------ subst.exe
\* What GetMappedPaths stores for one line of the enumeration: the target
\* lower-cased, a trailing separator added, the leading \??\ skipped.
MappedPathOf(target) ==
    LET mappedPath == ToLowerStr(target)
        mappedPathOffset == IF IsPrefix(MAPPED_PATH_STRING, mappedPath) THEN 4 ELSE 0
    IN  Tail_n(WithTrailingSlash(mappedPath), mappedPathOffset)

\* GetMappedPaths: the table after an enumeration of the subst table.  A
\* requested letter the enumeration lists gets its szMappedPath replaced;
\* every other node is left as it was.
GetMappedPaths(list, mappings) ==
    [n \in DOMAIN list |->
        IF n \in DOMAIN mappings
        THEN [list[n] EXCEPT !.szMappedPath = MappedPathOf(mappings[n])]
        ELSE list[n]]

\* subst "X:" "source" with the trailing separator skipped: the mapping is
\* made when the letter is free and the path is a directory.
MapDriveEffect(node, n, mappings) ==
    LET target == SubSeq(node.szSourceDirectory, 1, Len(node.szSourceDirectory) - 1)
    IN  IF n \notin DOMAIN mappings /\ IsDirectory(target)
        THEN mappings @@ (n :> target)
        ELSE mappings

\* A subst /D that leaves the mapping in place.
UnmapDriveEffect_Kept(n, mappings) == mappings

\* subst /D "X:".
UnmapDriveEffect(n, mappings) == [m \in DOMAIN mappings \ {n} |-> mappings[m]]

\* ------------------------------------------------------------ launcher
\* The current directory as ExecuteProcess prepares it: lower case, with a
\* trailing separator.
PreparedCurrentDir(dir) == WithTrailingSlash(ToLowerStr(dir))

\* A scan that keeps the first match instead of the longest.
RECURSIVE FindStartDir_FirstMatch(_, _, _, _, _)
FindStartDir_FirstMatch(list, currentDir, k, longestDirMatch, chosen) ==
    IF k >= NUMBER_DEFINABLE_SUBST THEN chosen
    ELSE IF k \notin DOMAIN list
    THEN FindStartDir_FirstMatch(list, currentDir, k + 1, longestDirMatch, chosen)
    ELSE LET src == list[k].szSourceDirectory
             len == Len(src)
         IN  IF IsPrefix(src, currentDir) /\ len > 0 /\ longestDirMatch = 0
             THEN FindStartDir_FirstMatch(list, currentDir, k + 1, len,
                                          <<list[k].szDriveLetter, ":", "\\">>
                                              \o Tail_n(currentDir, len))
             ELSE FindStartDir_FirstMatch(list, currentDir, k + 1,
                                          longestDirMatch, chosen)

\* A scan in which a later match of the same length replaces the earlier.
RECURSIVE FindStartDir_LastTie(_, _, _, _, _)
FindStartDir_LastTie(list, currentDir, k, longestDirMatch, chosen) ==
    IF k >= NUMBER_DEFINABLE_SUBST THEN chosen
    ELSE IF k \notin DOMAIN list
    THEN FindStartDir_LastTie(list, currentDir, k + 1, longestDirMatch, chosen)
    ELSE LET src == list[k].szSourceDirectory
             len == Len(src)
         IN  IF IsPrefix(src, currentDir) /\ len > 0 /\ len >= longestDirMatch
             THEN FindStartDir_LastTie(list, currentDir, k + 1, len,
                                       <<list[k].szDriveLetter, ":", "\\">>
                                           \o Tail_n(currentDir, len))
             ELSE FindStartDir_LastTie(list, currentDir, k + 1,
                                       longestDirMatch, chosen)

\* "Find the start directory": the scan of the table from index k on, with
\* the longest match so far and the directory chosen so far (<<>>: none).
RECURSIVE FindStartDir(_, _, _, _, _)
FindStartDir(list, currentDir, k, longestDirMatch, chosen) ==
    IF k >= NUMBER_DEFINABLE_SUBST THEN chosen
    ELSE IF k \notin DOMAIN list
    THEN FindStartDir(list, currentDir, k + 1, longestDirMatch, chosen)
    ELSE LET src == list[k].szSourceDirectory
             len == Len(src)
         IN  IF IsPrefix(src, currentDir) /\ len > longestDirMatch
             THEN FindStartDir(list, currentDir, k + 1, len,
                               <<list[k].szDriveLetter, ":", "\\">>
                                   \o Tail_n(currentDir, len))
             ELSE FindStartDir(list, currentDir, k + 1, longestDirMatch, chosen)

\* A launcher without the "not found" copy: newCurrentDir stays empty.
ChildDirectory_NoFallback(list, dir) ==
    FindStartDir(list, PreparedCurrentDir(dir), 0, 0, <<>>)

\* The working directory ExecuteProcess starts the child in.
ChildDirectory(list, dir) ==
    LET currentDir == PreparedCurrentDir(dir)
        found == FindStartDir(list, currentDir, 0, 0, <<>>)
    IN  IF Len(found) = 0 THEN currentDir ELSE found

\* ------------------------------------------------------------ initial state
\* Every instance is at the start of main, after InitializeState.
Started ==
    /\ pOrderedSubstList = [p \in Inst |-> <<>>]
    /\ executableToRunIndex = [p \in Inst |-> -1]
    /\ pc = [p \in Inst |-> "parse"]
    /\ i = [p \in Inst |-> 0]
    /\ driveLockHandles = [p \in Inst |-> {}]
    /\ errorCode = [p \in Inst |-> 0]
    /\ exitCode = [p \in Inst |-> None]
    /\ newCurrentDir = [p \in Inst |-> None]
    /\ childExitCode = [p \in Inst |-> None]
    /\ waiting = [p \in Inst |-> "none"]
    /\ verified = [p \in Inst |-> {}]
    /\ cleaned = [p \in Inst |-> {}]
    /\ iters = [p \in Inst |-> 0]

Init ==
    /\ argv \in [Inst -> ArgvChoices]
    /\ currentDirectory \in [Inst -> CwdChoices]
    /\ denied \in DeniedChoices
    /\ substWorks \in BOOLEAN
    /\ live \in LiveChoices
    /\ Started

\* ------------------------------------------------------------ steps
Node(p) == pOrderedSubstList[p][i[p]]

\* The process ends: main returns code, or the run-time library ends it.
Exit(p, code) ==
    /\ pc' = [pc EXCEPT ![p] = "done"]
    /\ exitCode' = [exitCode EXCEPT ![p] = ToDWORD(code)]
Crash(p, dword) ==
    /\ pc' = [pc EXCEPT ![p] = "crashed"]
    /\ exitCode' = [exitCode EXCEPT ![p] = dword]

\* _tmain to the first lock attempt: InitializeState,
\* ParseSubstSourcesAndTargets and the entry of SubstDrivesAndExecute.
Parse(p) ==
    /\ pc[p] = "parse"
    /\ \E o \in ParseSubstSourcesAndTargets(argv[p]) :
          /\ IF o.crashed
             THEN /\ Crash(p, DWORD(49152, 1047))   \* STATUS_INVALID_CRUNTIME_PARAMETER
                  /\ UNCHANGED <<pOrderedSubstList, executableToRunIndex, i>>
             ELSE IF o.exit
             THEN /\ Exit(p, 1)
                  /\ UNCHANGED <<pOrderedSubstList, executableToRunIndex, i>>
             ELSE /\ pOrderedSubstList' = [pOrderedSubstList EXCEPT ![p] = o.list]
                  /\ executableToRunIndex' = [executableToRunIndex EXCEPT ![p] = o.exe]
                  /\ i' = [i EXCEPT ![p] = NextSlot(o.list, 0)]
                  /\ UNCHANGED exitCode
                  /\ pc' = [pc EXCEPT ![p] =
                               IF DOMAIN o.list = {} THEN "nolist" ELSE "srclock"]
    /\ UNCHANGED <<envVars, live, driveLockHandles, errorCode, newCurrentDir, childExitCode,
                   waiting, verified, cleaned, iters>>

\* SubstDrivesAndExecute entered with an empty list: assert(pSubstList !=
\* nullptr) ends a build with assertions; one without skips both loops.
EmptyListAssert(p) ==
    /\ pc[p] = "nolist"
    /\ Crash(p, DWORD(0, 3))
    /\ UNCHANGED <<envVars, live, pOrderedSubstList, executableToRunIndex, i,
                   driveLockHandles, errorCode, newCurrentDir, childExitCode, waiting, verified,
                   cleaned, iters>>
EmptyListSkip(p) ==
    /\ pc[p] = "nolist"
    /\ pc' = [pc EXCEPT ![p] = "exec"]
    /\ UNCHANGED <<envVars, live, pOrderedSubstList, executableToRunIndex, i,
                   driveLockHandles, errorCode, exitCode, newCurrentDir, childExitCode, waiting,
                   verified, cleaned, iters>>

\* A locking loop that skips a slot whose source is no directory.
SourceInvalid_Skipped(p) ==
    /\ pc[p] = "srclock"
    /\ ~IsDirectory(Node(p).szSourceDirectory)
    /\ LET next == NextSlot(pOrderedSubstList[p], i[p] + 1)
       IN  IF next < NUMBER_DEFINABLE_SUBST
           THEN /\ i' = [i EXCEPT ![p] = next]
                /\ pc' = pc
           ELSE /\ i' = [i EXCEPT ![p] = NextSlot(pOrderedSubstList[p], 0)]
                /\ pc' = [pc EXCEPT ![p] = "map"]
    /\ UNCHANGED <<envVars, live, pOrderedSubstList, executableToRunIndex,
                   driveLockHandles, errorCode, exitCode, newCurrentDir, childExitCode,
                   waiting, verified, cleaned, iters>>

\* "First, get the local locks": the source location of slot i is not an
\* existing directory, and the function returns 1.
SourceInvalid(p) ==
    /\ pc[p] = "srclock"
    /\ ~IsDirectory(Node(p).szSourceDirectory)
    /\ Exit(p, 1)
    /\ UNCHANGED <<envVars, live, pOrderedSubstList, executableToRunIndex, i,
                   driveLockHandles, errorCode, newCurrentDir, childExitCode, waiting, verified,
                   cleaned, iters>>

\* A locking loop that backs off on a sharing violation: it closes the
\* handles it has and starts over at the first slot.
SourceLockWait_BackOff(p) ==
    /\ pc[p] = "srclock"
    /\ IsDirectory(Node(p).szSourceDirectory)
    /\ CreateFile(p, SourceLockPath(Node(p))) = "sharing"
    /\ waiting' = [waiting EXCEPT ![p] = "source"]
    /\ pOrderedSubstList' = [pOrderedSubstList EXCEPT ![p] =
           [n \in DOMAIN @ |-> [@[n] EXCEPT !.hLockFile = "invalid"]]]
    /\ i' = [i EXCEPT ![p] = NextSlot(pOrderedSubstList[p], 0)]
    /\ UNCHANGED <<envVars, live, executableToRunIndex, pc,
                   driveLockHandles, errorCode, exitCode, newCurrentDir, childExitCode, verified,
                   cleaned, iters>>

\* CreateFile on the source lock file fails with a sharing violation: warn,
\* Sleep(RUN_IN_SUBST_TIMEOUT) and try again.
SourceLockWait(p) ==
    /\ pc[p] = "srclock"
    /\ IsDirectory(Node(p).szSourceDirectory)
    /\ CreateFile(p, SourceLockPath(Node(p))) = "sharing"
    /\ waiting' = [waiting EXCEPT ![p] = "source"]
    /\ UNCHANGED <<envVars, live, pOrderedSubstList, executableToRunIndex, pc, i,
                   driveLockHandles, errorCode, exitCode, newCurrentDir, childExitCode, verified,
                   cleaned, iters>>

\* CreateFile on the source lock file fails for another reason: return 1.
SourceLockFail(p) ==
    /\ pc[p] = "srclock"
    /\ IsDirectory(Node(p).szSourceDirectory)
    /\ CreateFile(p, SourceLockPath(Node(p))) = "error"
    /\ Exit(p, 1)
    /\ UNCHANGED <<envVars, live, pOrderedSubstList, executableToRunIndex, i,
                   driveLockHandles, errorCode, newCurrentDir, childExitCode, waiting, verified,
                   cleaned, iters>>

\* A single loop that maps each letter as soon as its source is locked.
SourceLockAcquire_ThenMap(p) ==
    /\ pc[p] = "srclock"
    /\ IsDirectory(Node(p).szSourceDirectory)
    /\ CreateFile(p, SourceLockPath(Node(p))) = "ok"
    /\ pOrderedSubstList' = [pOrderedSubstList EXCEPT ![p][i[p]].hLockFile = "open"]
    /\ waiting' = [waiting EXCEPT ![p] = "none"]
    /\ pc' = [pc EXCEPT ![p] = "map"]
    /\ UNCHANGED <<envVars, live, executableToRunIndex, i, driveLockHandles,
                   errorCode, exitCode, newCurrentDir, childExitCode, verified, cleaned, iters>>

\* CreateFile succeeds: the handle is stored in the node and the loop goes
\* to the next slot; after the last slot the mapping loop starts.
SourceLockAcquire(p) ==
    /\ pc[p] = "srclock"
    /\ IsDirectory(Node(p).szSourceDirectory)
    /\ CreateFile(p, SourceLockPath(Node(p))) = "ok"
    /\ pOrderedSubstList' = [pOrderedSubstList EXCEPT ![p][i[p]].hLockFile = "open"]
    /\ waiting' = [waiting EXCEPT ![p] = "none"]
    /\ LET next == NextSlot(pOrderedSubstList[p], i[p] + 1)
       IN  IF next < NUMBER_DEFINABLE_SUBST
           THEN /\ i' = [i EXCEPT ![p] = next]
                /\ pc' = pc
           ELSE /\ i' = [i EXCEPT ![p] = NextSlot(pOrderedSubstList[p], 0)]
                /\ pc' = [pc EXCEPT ![p] = "map"]
    /\ UNCHANGED <<envVars, live, executableToRunIndex, driveLockHandles,
                   errorCode, exitCode, newCurrentDir, childExitCode, verified, cleaned, iters>>

\* "Now map the drive": MapDrive(pListNode); its result is discarded.
MapDrive(p) ==
    /\ pc[p] = "map"
    /\ live' = IF substWorks THEN MapDriveEffect(Node(p), i[p], live) ELSE live
    /\ iters' = [iters EXCEPT ![p] = IF @ < MaxIter THEN @ + 1 ELSE @]
    /\ pc' = [pc EXCEPT ![p] = "enum"]
    /\ UNCHANGED <<envVars, pOrderedSubstList, executableToRunIndex, i,
                   driveLockHandles, errorCode, exitCode, newCurrentDir, childExitCode, waiting,
                   verified, cleaned>>

\* The table after GetMappedPaths(pOrderedSubstList); when subst.exe cannot
\* be started the function returns 1, which the caller ignores.
Enumerated(p) ==
    IF substWorks THEN GetMappedPaths(pOrderedSubstList[p], live)
    ELSE pOrderedSubstList[p]

\* The test of the mapping loop: source and mapped path are equal.
IsVerified(node) ==
    /\ node.szSourceDirectory # None
    /\ node.szMappedPath # None
    /\ node.szSourceDirectory = node.szMappedPath

\* GetMappedPaths, and the slot passes the test: i++.  After the last slot
\* ExecuteProcess is called.
EnumVerified(p) ==
    /\ pc[p] = "enum"
    /\ IsVerified(Enumerated(p)[i[p]])
    /\ pOrderedSubstList' = [pOrderedSubstList EXCEPT ![p] = Enumerated(p)]
    /\ verified' = [verified EXCEPT ![p] = @ \cup {i[p]}]
    /\ iters' = [iters EXCEPT ![p] = 0]
    /\ waiting' = [waiting EXCEPT ![p] = "none"]
    /\ LET next == NextSlot(pOrderedSubstList[p], i[p] + 1)
       IN  /\ i' = [i EXCEPT ![p] = next]
           /\ pc' = [pc EXCEPT ![p] =
                        IF next < NUMBER_DEFINABLE_SUBST THEN "map" ELSE "exec"]
    /\ UNCHANGED <<envVars, live, executableToRunIndex, driveLockHandles,
                   errorCode, exitCode, newCurrentDir, childExitCode, cleaned>>

\* A mapping loop that goes to the next slot whatever the test says.
EnumMismatch_Ignored(p) ==
    /\ pc[p] = "enum"
    /\ ~IsVerified(Enumerated(p)[i[p]])
    /\ pOrderedSubstList' = [pOrderedSubstList EXCEPT ![p] = Enumerated(p)]
    /\ LET next == NextSlot(pOrderedSubstList[p], i[p] + 1)
       IN  /\ i' = [i EXCEPT ![p] = next]
           /\ pc' = [pc EXCEPT ![p] =
                        IF next < NUMBER_DEFINABLE_SUBST THEN "map" ELSE "exec"]
    /\ UNCHANGED <<envVars, live, executableToRunIndex, driveLockHandles,
                   errorCode, exitCode, newCurrentDir, childExitCode, waiting, verified,
                   cleaned, iters>>

\* GetMappedPaths, and the slot fails the test: go for the second lock.
EnumMismatch(p) ==
    /\ pc[p] = "enum"
    /\ ~IsVerified(Enumerated(p)[i[p]])
    /\ pOrderedSubstList' = [pOrderedSubstList EXCEPT ![p] = Enumerated(p)]
    /\ pc' = [pc EXCEPT ![p] = "drvlock"]
    /\ UNCHANGED <<envVars, live, executableToRunIndex, i, driveLockHandles,
                   errorCode, exitCode, newCurrentDir, childExitCode, waiting, verified, cleaned,
                   iters>>

\* A second lock that answers a sharing violation by releasing the drive.
DriveLockWait_Unmaps(p) ==
    /\ pc[p] = "drvlock"
    /\ CreateFile(p, DriveLockPath(Node(p))) = "sharing"
    /\ waiting' = [waiting EXCEPT ![p] = "drive"]
    /\ pc' = [pc EXCEPT ![p] = "release"]
    /\ UNCHANGED <<envVars, live, pOrderedSubstList, executableToRunIndex, i,
                   driveLockHandles, errorCode, exitCode, newCurrentDir, childExitCode, verified,
                   cleaned, iters>>

\* A second lock that gives up on a sharing violation.
DriveLockWait_Fatal(p) ==
    /\ pc[p] = "drvlock"
    /\ CreateFile(p, DriveLockPath(Node(p))) = "sharing"
    /\ Exit(p, 1)
    /\ UNCHANGED <<envVars, live, pOrderedSubstList, executableToRunIndex, i,
                   driveLockHandles, errorCode, newCurrentDir, childExitCode, waiting,
                   verified, cleaned, iters>>

\* CreateFile on the second lock file fails with a sharing violation: warn,
\* sleep, and `continue` to MapDrive.
DriveLockWait(p) ==
    /\ pc[p] = "drvlock"
    /\ CreateFile(p, DriveLockPath(Node(p))) = "sharing"
    /\ waiting' = [waiting EXCEPT ![p] = "drive"]
    /\ pc' = [pc EXCEPT ![p] = "map"]
    /\ UNCHANGED <<envVars, live, pOrderedSubstList, executableToRunIndex, i,
                   driveLockHandles, errorCode, exitCode, newCurrentDir, childExitCode, verified,
                   cleaned, iters>>

\* CreateFile fails for another reason: look at the drive root next.
DriveLockError(p) ==
    /\ pc[p] = "drvlock"
    /\ CreateFile(p, DriveLockPath(Node(p))) = "error"
    /\ pc' = [pc EXCEPT ![p] = "attr"]
    /\ waiting' = [waiting EXCEPT ![p] = "none"]
    /\ UNCHANGED <<envVars, live, pOrderedSubstList, executableToRunIndex, i,
                   driveLockHandles, errorCode, exitCode, newCurrentDir, childExitCode,
                   verified, cleaned, iters>>

\* The test made once the second lock is held: a mapped path is known and
\* differs from the source.
IsMappedElsewhere(node) ==
    /\ node.szMappedPath # None
    /\ node.szSourceDirectory # node.szMappedPath

\* CreateFile succeeds and the drive is mapped to another place: unmap next.
DriveLockAcquire(p) ==
    /\ pc[p] = "drvlock"
    /\ CreateFile(p, DriveLockPath(Node(p))) = "ok"
    /\ IsMappedElsewhere(Node(p))
    /\ driveLockHandles' = [driveLockHandles EXCEPT ![p] =
           @ \cup {FullPath(currentDirectory[p], DriveLockPath(Node(p)))}]
    /\ pc' = [pc EXCEPT ![p] = "unmap"]
    /\ waiting' = [waiting EXCEPT ![p] = "none"]
    /\ UNCHANGED <<envVars, live, pOrderedSubstList, executableToRunIndex, i,
                   errorCode, exitCode, newCurrentDir, childExitCode, verified, cleaned,
                   iters>>

\* CreateFile succeeds and no branch is taken: assert(false && "We should
\* never be here!!!").  A build with assertions ends here.
NeverHereAssert(p) ==
    /\ pc[p] = "drvlock"
    /\ CreateFile(p, DriveLockPath(Node(p))) = "ok"
    /\ ~IsMappedElsewhere(Node(p))
    /\ Crash(p, DWORD(0, 3))
    /\ UNCHANGED <<envVars, live, pOrderedSubstList, executableToRunIndex, i,
                   driveLockHandles, errorCode, newCurrentDir, childExitCode, waiting, verified,
                   cleaned, iters>>

\* The same place in a build without assertions: the loop body ends, the
\* handle just opened stays open, and the loop starts over at MapDrive.
NeverHereContinue(p) ==
    /\ pc[p] = "drvlock"
    /\ CreateFile(p, DriveLockPath(Node(p))) = "ok"
    /\ ~IsMappedElsewhere(Node(p))
    /\ driveLockHandles' = [driveLockHandles EXCEPT ![p] =
           @ \cup {FullPath(currentDirectory[p], DriveLockPath(Node(p)))}]
    /\ pc' = [pc EXCEPT ![p] = "map"]
    /\ waiting' = [waiting EXCEPT ![p] = "none"]
    /\ UNCHANGED <<envVars, live, pOrderedSubstList, executableToRunIndex, i,
                   errorCode, exitCode, newCurrentDir, childExitCode, verified, cleaned,
                   iters>>

\* GetFileAttributes(<letter>:\): the root of a substituted drive is a
\* directory when the letter is mapped to an existing directory.
DriveRootIsDirectory(n) == n \in DOMAIN live /\ IsDirectory(live[n])

\* A mapping loop that retries after every failure of the second lock.
DriveRootFatal_Retried(p) ==
    /\ pc[p] = "attr"
    /\ DriveRootIsDirectory(i[p])
    /\ pc' = [pc EXCEPT ![p] = "map"]
    /\ UNCHANGED <<envVars, live, pOrderedSubstList, executableToRunIndex, i,
                   driveLockHandles, errorCode, exitCode, newCurrentDir, childExitCode,
                   waiting, verified, cleaned, iters>>

\* The drive root is a directory: the lock failure is fatal, return 1.
DriveRootFatal(p) ==
    /\ pc[p] = "attr"
    /\ DriveRootIsDirectory(i[p])
    /\ Exit(p, 1)
    /\ UNCHANGED <<envVars, live, pOrderedSubstList, executableToRunIndex, i,
                   driveLockHandles, errorCode, newCurrentDir, childExitCode, waiting, verified,
                   cleaned, iters>>

\* The drive root is no directory: "Forcing a manual release of the drive".
DriveRootInvalid(p) ==
    /\ pc[p] = "attr"
    /\ ~DriveRootIsDirectory(i[p])
    /\ pc' = [pc EXCEPT ![p] = "release"]
    /\ UNCHANGED <<envVars, live, pOrderedSubstList, executableToRunIndex, i,
                   driveLockHandles, errorCode, exitCode, newCurrentDir, childExitCode, waiting,
                   verified, cleaned, iters>>

\* UnmapDrive(pListNode); continue.
ForcedRelease(p) ==
    /\ pc[p] = "release"
    /\ live' = IF substWorks THEN UnmapDriveEffect(i[p], live) ELSE live
    /\ pc' = [pc EXCEPT ![p] = "map"]
    /\ UNCHANGED <<envVars, pOrderedSubstList, executableToRunIndex, i,
                   driveLockHandles, errorCode, exitCode, newCurrentDir, childExitCode, waiting,
                   verified, cleaned, iters>>

\* "If we got the lock, but the drive is mapped to another place, unmap
\* before trying to map again": UnmapDrive(pListNode).
UnmapLocked(p) ==
    /\ pc[p] = "unmap"
    /\ live' = IF substWorks THEN UnmapDriveEffect(i[p], live) ELSE live
    /\ pc' = [pc EXCEPT ![p] = "close"]
    /\ UNCHANGED <<envVars, pOrderedSubstList, executableToRunIndex, i,
                   driveLockHandles, errorCode, exitCode, newCurrentDir, childExitCode, waiting,
                   verified, cleaned, iters>>

\* A repair branch that closes the handle stored in the slot as well.
CloseDriveLock_AndSource(p) ==
    /\ pc[p] = "close"
    /\ driveLockHandles' = [driveLockHandles EXCEPT ![p] =
           @ \ {FullPath(currentDirectory[p], DriveLockPath(Node(p)))}]
    /\ pOrderedSubstList' = [pOrderedSubstList EXCEPT ![p][i[p]].hLockFile = "invalid"]
    /\ pc' = [pc EXCEPT ![p] = "map"]
    /\ UNCHANGED <<envVars, live, executableToRunIndex, i,
                   errorCode, exitCode, newCurrentDir, childExitCode, waiting, verified, cleaned,
                   iters>>

\* CloseHandle(substFileLockHandle); continue.
CloseDriveLock(p) ==
    /\ pc[p] = "close"
    /\ driveLockHandles' = [driveLockHandles EXCEPT ![p] =
           @ \ {FullPath(currentDirectory[p], DriveLockPath(Node(p)))}]
    /\ pc' = [pc EXCEPT ![p] = "map"]
    /\ UNCHANGED <<envVars, live, pOrderedSubstList, executableToRunIndex, i,
                   errorCode, exitCode, newCurrentDir, childExitCode, waiting, verified, cleaned,
                   iters>>

\* ExecuteProcess has returned code: "Clean up whatever is needed to clean
\* up" starts at the first slot; with no slot the function returns at once.
StartCleanup(p, code) ==
    /\ errorCode' = [errorCode EXCEPT ![p] = code]
    /\ LET first == NextSlot(pOrderedSubstList[p], 0)
       IN  IF first < NUMBER_DEFINABLE_SUBST
           THEN /\ i' = [i EXCEPT ![p] = first]
                /\ pc' = [pc EXCEPT ![p] = "cunmap"]
                /\ UNCHANGED exitCode
           ELSE /\ Exit(p, code)
                /\ UNCHANGED i

\* CreateProcess of ExecuteProcess can start the command line.
CanLaunch(p) ==
    /\ executableToRunIndex[p] # -1
    /\ argv[p][executableToRunIndex[p]] \in Executables

\* ExecuteProcess fails before a child exists: no executable on the command
\* line, or CreateProcess fails.  It returns 1.
LaunchFail(p) ==
    /\ pc[p] = "exec"
    /\ ~CanLaunch(p)
    /\ StartCleanup(p, 1)
    /\ UNCHANGED <<envVars, live, pOrderedSubstList, executableToRunIndex,
                   driveLockHandles, newCurrentDir, childExitCode, waiting, verified, cleaned,
                   iters>>

\* ExecuteProcess starts the child in the directory it computed.
Launch(p) ==
    /\ pc[p] = "exec"
    /\ CanLaunch(p)
    /\ newCurrentDir' = [newCurrentDir EXCEPT ![p] =
           ChildDirectory(pOrderedSubstList[p], currentDirectory[p])]
    /\ pc' = [pc EXCEPT ![p] = "child"]
    /\ UNCHANGED <<envVars, live, pOrderedSubstList, executableToRunIndex, i,
                   driveLockHandles, errorCode, exitCode, childExitCode, waiting,
                   verified, cleaned, iters>>

\* An ExecuteProcess that returns only the low byte of the child's code.
ExecuteProcessResult_LowByte(code) == code[2] % 256

\* What ExecuteProcess returns for a child that ended with code.
ExecuteProcessResult(code) == ToInt(code)

\* The child ends and GetExitCodeProcess gives its exit code.
ChildExit(p) ==
    /\ pc[p] = "child"
    /\ \E code \in ChildExitCodes :
          /\ StartCleanup(p, ExecuteProcessResult(code))
          /\ childExitCode' = [childExitCode EXCEPT ![p] = code]
    /\ UNCHANGED <<envVars, live, pOrderedSubstList, executableToRunIndex,
                   driveLockHandles, newCurrentDir, waiting, verified, cleaned,
                   iters>>

\* The child ends and GetExitCodeProcess fails: ExecuteProcess returns 1.
ExitCodeUnavailable(p) ==
    /\ pc[p] = "child"
    /\ StartCleanup(p, 1)
    /\ childExitCode' = [childExitCode EXCEPT ![p] = <<"<unavailable>">>]
    /\ UNCHANGED <<envVars, live, pOrderedSubstList, executableToRunIndex,
                   driveLockHandles, newCurrentDir, waiting, verified, cleaned,
                   iters>>

\* A cleanup loop whose body goes to the handle without UnmapDrive.
CleanupUnmap_Skipped(p) ==
    /\ pc[p] = "cunmap"
    /\ pc' = [pc EXCEPT ![p] = "cclose"]
    /\ UNCHANGED <<envVars, live, pOrderedSubstList, executableToRunIndex, i,
                   driveLockHandles, errorCode, exitCode, newCurrentDir,
                   childExitCode, waiting, verified, cleaned, iters>>

\* The cleanup loop, first half of its body: LogToFile, UnmapDrive.
CleanupUnmap(p) ==
    /\ pc[p] = "cunmap"
    /\ live' = IF substWorks THEN UnmapDriveEffect(i[p], live) ELSE live
    /\ cleaned' = [cleaned EXCEPT ![p] = @ \cup {i[p]}]
    /\ pc' = [pc EXCEPT ![p] = "cclose"]
    /\ UNCHANGED <<envVars, pOrderedSubstList, executableToRunIndex, i,
                   driveLockHandles, errorCode, exitCode, newCurrentDir, childExitCode, waiting,
                   verified>>
    /\ UNCHANGED iters

\* What SubstDrivesAndExecute returns after the cleanup loop.
CleanupResult(code) == code

\* The cleanup loop, second half: the handle test and CloseHandle; after
\* the last slot the function returns errorCode and the process ends.
CleanupClose(p) ==
    /\ pc[p] = "cclose"
    /\ IF Node(p).hLockFile = "invalid"
       THEN /\ \E assertions \in BOOLEAN :
                  IF assertions THEN Crash(p, DWORD(0, 3)) ELSE Exit(p, 1)
            /\ UNCHANGED <<pOrderedSubstList, i>>
       ELSE /\ pOrderedSubstList' =
                  [pOrderedSubstList EXCEPT ![p][i[p]].hLockFile = "closed"]
            /\ LET next == NextSlot(pOrderedSubstList[p], i[p] + 1)
               IN  IF next < NUMBER_DEFINABLE_SUBST
                   THEN /\ i' = [i EXCEPT ![p] = next]
                        /\ pc' = [pc EXCEPT ![p] = "cunmap"]
                        /\ UNCHANGED exitCode
                   ELSE /\ Exit(p, CleanupResult(errorCode[p]))
                        /\ UNCHANGED i
    /\ UNCHANGED <<envVars, live, executableToRunIndex, driveLockHandles,
                   errorCode, newCurrentDir, childExitCode, waiting, verified, cleaned, iters>>

\* ------------------------------------------------------------ specification
\* A step of instance p.
Step(p) ==
        \/ Parse(p)
        \/ EmptyListAssert(p)
        \/ EmptyListSkip(p)
        \/ SourceInvalid(p)
        \/ SourceLockWait(p)
        \/ SourceLockFail(p)
        \/ SourceLockAcquire(p)
        \/ MapDrive(p)
        \/ EnumVerified(p)
        \/ EnumMismatch(p)
        \/ DriveLockWait(p)
        \/ DriveLockError(p)
        \/ DriveLockAcquire(p)
        \/ NeverHereAssert(p)
        \/ NeverHereContinue(p)
        \/ DriveRootFatal(p)
        \/ DriveRootInvalid(p)
        \/ ForcedRelease(p)
        \/ UnmapLocked(p)
        \/ CloseDriveLock(p)
        \/ LaunchFail(p)
        \/ Launch(p)
        \/ ChildExit(p)
        \/ ExitCodeUnavailable(p)
        \/ CleanupUnmap(p)
        \/ CleanupClose(p)

Next == \E p \in Inst : Step(p)

Spec == Init /\ [][Next]_vars

\* ------------------------------------------------------------ fair runs
\* Machines and pairs of command lines for the runs in which every process
\* that can take a step eventually takes one: the first two instances get
\* the command lines and current directories of the scenario, any further
\* instance requests no letter.
Scenario(a1, a2, d1, d2, den, sw, lv) ==
    [argv1 |-> a1, argv2 |-> a2, cwd1 |-> d1, cwd2 |-> d2, denied |-> den,
     substWorks |-> sw, live |-> lv]
CwdW == <<"c", ":", "\\", "w">>
CwdS == <<"C", ":", "\\", "A", "\\", "S">>
FairScenarios ==
    { Scenario(<<Tok("a", PathS), Program>>, <<Program>>,
               CwdW, CwdW, {}, TRUE, (0 :> StaleTarget)),
      Scenario(<<Tok("a", PathS), Program>>, <<Tok("B", PathB), NoProgram>>,
               CwdW, CwdS, {}, TRUE, (0 :> StaleTarget) @@ (1 :> StaleTarget)),
      Scenario(<<Tok("A", PathA), Program>>, <<Tok("a", PathS), Program>>,
               CwdW, CwdS, {}, TRUE, <<>>),
      Scenario(<<Tok("A", PathA), Program>>, <<Tok("a", PathS), Program>>,
               CwdW, CwdW, {}, TRUE, <<>>),
      Scenario(<<Tok("A", PathA), Program>>, <<Tok("A", PathAUpper), Program>>,
               CwdW, CwdS, {}, TRUE, <<>>),
      Scenario(<<Tok("A", PathA), Tok("B", PathB), Tok("B", PathZ), Program>>,
               <<Tok("B", PathB), Program>>, CwdW, CwdS, {DirB}, TRUE, <<>>),
      Scenario(<<Tok("a", PathS), Program>>, <<Tok("B", PathB), Program>>,
               CwdW, CwdW, {DirW}, TRUE, (0 :> StaleTarget)),
      Scenario(<<Tok("a", PathS), Program>>, <<Program>>,
               CwdW, CwdW, {DirW}, FALSE, <<>>) }

InitFair ==
    /\ \E s \in FairScenarios :
          /\ argv = [p \in Inst |-> IF p = 1 THEN s.argv1
                                    ELSE IF p = 2 THEN s.argv2 ELSE <<Program>>]
          /\ currentDirectory = [p \in Inst |-> IF p = 1 THEN s.cwd1 ELSE s.cwd2]
          /\ denied = s.denied
          /\ substWorks = s.substWorks
          /\ live = s.live
    /\ Started

\* The scheduler lets every process that is not blocked run: a step of an
\* instance that stays possible is eventually taken.
FairSpec == InitFair /\ [][Next]_vars /\ \A p \in Inst : WF_vars(Step(p))

\* ------------------------------------------------------------ launcher runs
\* Runs of one instance on a machine without stale mappings or denied
\* directories, over more tables and current directories: they go from main
\* to CreateProcess.  The command lines give different letters different
\* paths.  The other instances are started on a missing source directory
\* and end in main.
LaunchLetters == {"X", "Y"}
LaunchPaths == {PathA, PathS, PathB}
LaunchTokens == {Tok(l, path) : l \in LaunchLetters, path \in LaunchPaths}
LaunchArgvChoices ==
    {<<t, Program>> : t \in LaunchTokens}
        \cup {<<tu[1], tu[2], Program>> :
                 tu \in {vw \in LaunchTokens \X LaunchTokens :
                            /\ vw[1][1] # vw[2][1]
                            /\ Tail_n(vw[1], 2) # Tail_n(vw[2], 2)}}
LaunchCwdChoices ==
    { <<"c", ":", "\\", "a">>,
      <<"C", ":", "\\", "A", "\\", "S">>,
      <<"c", ":", "\\", "a", "\\", "s", "\\", "d">>,
      <<"C", ":", "\\", "a", "\\", "S", "\\", "D", "\\">>,
      <<"c", ":", "\\", "b", "\\">>,
      <<"c", ":", "\\", "w">> }

InitLaunch ==
    /\ \E args \in LaunchArgvChoices :
          argv = [p \in Inst |->
                     IF p = 1 THEN args ELSE <<Tok("A", PathZ), Program>>]
    /\ \E dir \in LaunchCwdChoices : currentDirectory = [p \in Inst |-> dir]
    /\ denied = {}
    /\ substWorks = TRUE
    /\ live = <<>>
    /\ Started

NextLaunch ==
    \E p \in Inst :
        \/ Parse(p)
        \/ SourceLockAcquire(p)
        \/ MapDrive(p)
        \/ EnumVerified(p)
        \/ Launch(p)

SpecLaunch == InitLaunch /\ [][NextLaunch]_vars

\* ------------------------------------------------------------ the scan alone
\* ExecuteProcess taken on its own: it is applied to every table the parser
\* produces from one or two mapping tokens, two letters with the same source
\* directory included.
ScanArgvChoices ==
    {<<t, Program>> : t \in LaunchTokens}
        \cup {<<tu[1], tu[2], Program>> :
                 tu \in {vw \in LaunchTokens \X LaunchTokens : vw[1][1] # vw[2][1]}}

InitScan ==
    /\ \E args \in ScanArgvChoices :
          argv = [p \in Inst |->
                     IF p = 1 THEN args ELSE <<Tok("A", PathZ), Program>>]
    /\ \E dir \in LaunchCwdChoices : currentDirectory = [p \in Inst |-> dir]
    /\ denied = {}
    /\ substWorks = TRUE
    /\ live = <<>>
    /\ Started

\* ExecuteProcess(argc, argv, executableToRunIndex, pOrderedSubstList) called
\* with the table as parsed.
ScanExecute(p) ==
    /\ pc[p] = "srclock"
    /\ CanLaunch(p)
    /\ newCurrentDir' = [newCurrentDir EXCEPT ![p] =
           ChildDirectory(pOrderedSubstList[p], currentDirectory[p])]
    /\ pc' = [pc EXCEPT ![p] = "child"]
    /\ UNCHANGED <<envVars, live, pOrderedSubstList, executableToRunIndex, i,
                   driveLockHandles, errorCode, exitCode, childExitCode, waiting,
                   verified, cleaned, iters>>

NextScan == \E p \in Inst : Parse(p) \/ ScanExecute(p)

SpecScan == InitScan /\ [][NextScan]_vars

\* ------------------------------------------------------------ claims
\* The lock file instance p is trying to open in the source-lock loop.
WantedSourceLock(p) == FullPath(currentDirectory[p], SourceLockPath(Node(p)))

\* Every instance of S is in the source-lock loop, retrying CreateFile on a
\* file that another instance of S holds open.
DeadlockedSet(S) ==
    /\ S # {}
    /\ \A p \in S :
          /\ pc[p] = "srclock"
          /\ \E q \in S \ {p} : WantedSourceLock(p) \in OpenFiles(q)

\* C1: deadlock freedom: in no reachable state is there a set of instances
\* each of which waits on a lock file held open by another instance of the
\* set.
C1_NoDeadlock == \A S \in SUBSET Inst : ~DeadlockedSet(S)

\* Instance p owns slot n from passing its verification until the cleanup
\* loop unmaps it, or the process ends.
Owns(p, n) == n \in verified[p] /\ n \notin cleaned[p] /\ ~Ended(p)
Owners(n) == {p \in Inst : Owns(p, n)}

\* C2: letter mutual exclusion: for every letter, at most one instance is
\* between having passed verification of the letter and having started its
\* cleanup.
C2_LetterMutualExclusion ==
    \A n \in 0..(NUMBER_DEFINABLE_SUBST - 1) : Cardinality(Owners(n)) <= 1

\* The machine maps letter n to the source directory of p's slot n.
LiveIsSource(p, n) ==
    /\ n \in DOMAIN live
    /\ WithTrailingSlash(ToLowerStr(live[n])) = pOrderedSubstList[p][n].szSourceDirectory

\* Instance p completes setup in this step: the last slot passes the test
\* and ExecuteProcess is called next.
CompletesSetup(p) == pc[p] = "enum" /\ pc'[p] = "exec"

\* C3: verified post-condition: when an instance completes setup and calls
\* ExecuteProcess, every requested letter is mapped to its source directory
\* at that moment.
C3_VerifiedPostCondition ==
    [][\A p \in Inst :
          CompletesSetup(p) =>
              \A n \in DOMAIN pOrderedSubstList[p] : LiveIsSource(p, n)']_vars

\* The mapping loop of p ran to its end, so that ExecuteProcess was called:
\* every slot of the table passed the test.
SetupCompleted(p) == verified[p] = DOMAIN pOrderedSubstList[p]

\* The program itself unmapped slot n of p and closed its source lock handle.
TornDown(p, n) ==
    /\ n \in cleaned[p]
    /\ pOrderedSubstList[p][n].hLockFile = "closed"

ExitCodeRetrieved(p) == childExitCode[p] \in ChildExitCodes

RECURSIVE LeadingTokens(_)
LeadingTokens(args) ==
    IF args = <<>> \/ ~IsMappingToken(Head(args)) THEN <<>>
    ELSE <<Head(args)>> \o LeadingTokens(Tail(args))

TokenSlot(tok) == CharCode(ToUpperChar(tok[1])) - 65
TokenSource(tok) == WithTrailingSlash(ToLowerStr(Tail_n(tok, SUBST_START_OFFSET)))

\* Some requested letter of the command line names a source that is not a
\* directory.
HasMissingSource(args) ==
    \E k \in 1..Len(LeadingTokens(args)) :
        ~IsDirectory(TokenSource(LeadingTokens(args)[k]))

\* Instance p opened a lock file, for a source directory or for a drive.
OpenedAnyLock(p) ==
    \/ driveLockHandles[p] # {}
    \/ \E n \in DOMAIN pOrderedSubstList[p] :
          pOrderedSubstList[p][n].hLockFile # "invalid"

\* C6: missing source directory: a run whose command line requests a letter
\* for a source that is not a directory opens no lock file, and ends only by
\* returning exit code 1.
C6_MissingSource ==
    \A p \in Inst :
        HasMissingSource(argv[p]) =>
            /\ ~OpenedAnyLock(p)
            /\ Ended(p) => (pc[p] = "done" /\ exitCode[p] = DWORD(0, 1))

\* The source directory the last token for slot n of a command line gives.
LastSource(args, n) ==
    LET toks == LeadingTokens(args)
        last == CHOOSE k \in 1..Len(toks) :
                    /\ TokenSlot(toks[k]) = n
                    /\ \A j \in (k + 1)..Len(toks) : TokenSlot(toks[j]) # n
    IN  TokenSource(toks[last])

\* C9: duplicate letters: after parsing, every slot of the table has the
\* source directory of the last token given for its letter (lower-cased,
\* with trailing separator).
C9_DuplicateLetters ==
    \A p \in Inst :
        \A n \in DOMAIN pOrderedSubstList[p] :
            pOrderedSubstList[p][n].szSourceDirectory = LastSource(argv[p], n)

\* The slots whose source directory is a prefix of dir, and among them the
\* one with the longest source directory (the lowest letter, if several).
MatchingSlots(list, dir) ==
    {n \in DOMAIN list :
        /\ Len(list[n].szSourceDirectory) > 0
        /\ IsPrefix(list[n].szSourceDirectory, dir)}
LongestPrefixSlot(list, dir) ==
    CHOOSE n \in MatchingSlots(list, dir) :
        \A m \in MatchingSlots(list, dir) :
            \/ Len(list[m].szSourceDirectory) < Len(list[n].szSourceDirectory)
            \/ /\ Len(list[m].szSourceDirectory) = Len(list[n].szSourceDirectory)
               /\ n <= m

\* <letter>:\<suffix> for the slot with the longest prefix of dir.
Remapped(list, dir) ==
    LET n == LongestPrefixSlot(list, dir)
    IN  <<list[n].szDriveLetter, ":", "\\">>
            \o Tail_n(dir, Len(list[n].szSourceDirectory))

\* C10 as stated: working-directory remap: a child started where some slot's
\* source directory is a prefix of the (lower-cased) current directory has
\* the working directory <letter>:\<suffix>, for the slot with the longest
\* such source directory and the remainder of the current directory after
\* it, so that c:\a\s\d with c:\a\ on X: and c:\a\s\ on Y: gives Y:\d.
C10_LongestPrefixRemap ==
    \A p \in Inst :
        LET dir == ToLowerStr(currentDirectory[p])
        IN  (pc[p] = "child" /\ MatchingSlots(pOrderedSubstList[p], dir) # {})
                => newCurrentDir[p] = Remapped(pOrderedSubstList[p], dir)

\* C10 amended: the same, for the current directory lower-cased and ended
\* with a separator, which the suffix keeps: c:\a\s\d with c:\a\ on X: and
\* c:\a\s\ on Y: gives Y:\d\.
C10_LongestPrefixRemapPrepared ==
    \A p \in Inst :
        LET dir == PreparedCurrentDir(currentDirectory[p])
        IN  (pc[p] = "child" /\ MatchingSlots(pOrderedSubstList[p], dir) # {})
                => newCurrentDir[p] = Remapped(pOrderedSubstList[p], dir)

\* A child started in c:\a\s\d with c:\a\ on X: and c:\a\s\ on Y:.
C10_Witness ==
    \E p \in Inst :
        /\ pc[p] = "child"
        /\ currentDirectory[p] = <<"c", ":", "\\", "a", "\\", "s", "\\", "d">>
        /\ DOMAIN pOrderedSubstList[p] = {23, 24}
        /\ pOrderedSubstList[p][23].szSourceDirectory = DirA
        /\ pOrderedSubstList[p][24].szSourceDirectory = DirS
        /\ newCurrentDir[p] = <<"Y", ":", "\\", "d", "\\">>

\* The slots and the source directories a command line requests.
RequestedSlots(args) ==
    {TokenSlot(LeadingTokens(args)[k]) : k \in 1..Len(LeadingTokens(args))}
RequestedSources(args) ==
    {TokenSource(LeadingTokens(args)[k]) : k \in 1..Len(LeadingTokens(args))}
UsedSlots == UNION {RequestedSlots(args) : args \in ArgvChoices}

\* subst.exe works, lock files can be created everywhere, and no other
\* instance requests a letter or a source directory that p requests.
Uncontended(p) ==
    /\ substWorks
    /\ denied = {}
    /\ \A q \in Inst \ {p} :
          /\ RequestedSlots(argv[q]) \cap RequestedSlots(argv[p]) = {}
          /\ RequestedSources(argv[q]) \cap RequestedSources(argv[p]) = {}

\* C7: crash recovery: an instance without contention that enters the
\* map/verify/force-unmap loop for a letter, whatever an earlier process left
\* the letter mapped to, calls MapDrive at most twice for it and eventually
\* has the letter verified and mapped to its own source directory.
C7_CrashRecovery ==
    \A p \in Inst :
        /\ [](Uncontended(p) => iters[p] <= 2)
        /\ \A n \in UsedSlots :
              (Uncontended(p) /\ pc[p] = "map" /\ i[p] = n)
                  ~> (n \in verified[p] /\ LiveIsSource(p, n))

\* An instance without contention, after it unmapped what an earlier process
\* left, has mapped the letter to its own source in the second iteration.
C7_Witness ==
    \E p \in Inst :
        /\ Uncontended(p)
        /\ pc[p] = "enum"
        /\ iters[p] = 2
        /\ Node(p).szMappedPath = MappedPathOf(StaleTarget)
        /\ LiveIsSource(p, i[p])

\* Instance q has seen letter n mapped to the source directory of p, which
\* requests the same letter for another source directory; q can start its
\* program.
ObservedMismatch(p, q, n) ==
    /\ substWorks
    /\ denied = {}
    /\ n \in DOMAIN pOrderedSubstList[p] \cap DOMAIN pOrderedSubstList[q]
    /\ pOrderedSubstList[p][n].szSourceDirectory
           # pOrderedSubstList[q][n].szSourceDirectory
    /\ pc[q] = "drvlock"
    /\ i[q] = n
    /\ pOrderedSubstList[q][n].szMappedPath
           = pOrderedSubstList[p][n].szSourceDirectory
    /\ executableToRunIndex[q] # -1
    /\ argv[q][executableToRunIndex[q]] \in Executables

\* C8: two instances, same letter, different source directories: once the
\* second has observed the mismatch after the first mapped its own source,
\* the second eventually has the letter verified and mapped to its own source
\* directory, and eventually launches its child.
C8_SecondInstanceVerifies ==
    \A p \in Inst : \A q \in Inst \ {p} : \A n \in UsedSlots :
        /\ ObservedMismatch(p, q, n)
               ~> (n \in verified[q] /\ LiveIsSource(q, n))
        /\ ObservedMismatch(p, q, n) ~> (newCurrentDir[q] # None)

\* No slot's source directory is a prefix of the current directory of p
\* (compared without case, directory by directory).
NoMatch(p) ==
    MatchingSlots(pOrderedSubstList[p], PreparedCurrentDir(currentDirectory[p])) = {}

\* C11 as stated: no matching prefix: a child started where no slot's source
\* directory is a prefix of the current directory gets the original current
\* directory, unchanged, as its working directory.
C11_NoMatchUnchanged ==
    \A p \in Inst :
        (pc[p] = "child" /\ NoMatch(p)) => newCurrentDir[p] = currentDirectory[p]

\* C11 amended: such a child gets the current directory lower-cased and
\* ended with a separator.
C11_NoMatchPrepared ==
    \A p \in Inst :
        (pc[p] = "child" /\ NoMatch(p))
            => newCurrentDir[p] = PreparedCurrentDir(currentDirectory[p])

\* A child started in c:\w, which no slot of a table with slots covers.
C11_Witness ==
    \E p \in Inst :
        /\ pc[p] = "child"
        /\ DOMAIN pOrderedSubstList[p] # {}
        /\ NoMatch(p)
        /\ currentDirectory[p] = CwdW
        /\ newCurrentDir[p] = DirW

\* The enumeration p is about to make fails: subst.exe cannot be started.
EnumerationFails(p) == pc[p] = "enum" /\ ~substWorks

\* C12: enumeration failure is fatal: when GetMappedPaths fails, the next
\* step of the instance ends the process with a non-zero exit code: it goes
\* on neither to the second lock nor to the next slot nor to the child.
C12_EnumerationFailureFatal ==
    [][\A p \in Inst :
          (EnumerationFails(p) /\ pc'[p] # pc[p])
              => (pc'[p] = "done" /\ exitCode'[p] # DWORD(0, 0))]_vars

\* A lock file open of p has failed, or is about to fail, for a reason other
\* than a sharing violation: the source lock (812-831) or the second lock
\* (873-916, where the model is at the GetFileAttributes of the drive root).
LockOpenFailed(p) ==
    \/ /\ pc[p] = "srclock"
       /\ IsDirectory(Node(p).szSourceDirectory)
       /\ CreateFile(p, SourceLockPath(Node(p))) = "error"
    \/ pc[p] = "attr"
FatalExit(p) == pc'[p] = "done" /\ exitCode'[p] = DWORD(0, 1)

\* C14 as stated: when opening a lock file fails for any reason other than a
\* sharing violation, the instance does not retry: its next step is to exit
\* with code 1, without another open and without launching the child.
C14_OtherFailureFatal ==
    [][\A p \in Inst : (LockOpenFailed(p) /\ pc'[p] # pc[p]) => FatalExit(p)]_vars

\* C14 amended: such a failure is fatal at the source lock, and at the second
\* lock when the drive root is an existing directory; at the second lock
\* with a drive root that is no directory the instance goes on to release
\* the drive and to retry.
C14_FatalUnlessRootInvalid ==
    [][\A p \in Inst : (LockOpenFailed(p) /\ pc'[p] # pc[p]) =>
            IF pc[p] = "attr" /\ ~DriveRootIsDirectory(i[p])
            THEN pc'[p] = "release" /\ exitCode'[p] = exitCode[p]
            ELSE FatalExit(p)]_vars

\* An instance has ended with code 1 on a failed second lock: its slot holds
\* the source lock, was never verified, and no child was started.
C14_Witness ==
    \E p \in Inst :
        /\ pc[p] = "done" /\ exitCode[p] = DWORD(0, 1)
        /\ i[p] \in DOMAIN pOrderedSubstList[p]
        /\ Node(p).hLockFile = "open"
        /\ i[p] \notin verified[p]
        /\ DirOf(FullPath(currentDirectory[p], DriveLockPath(Node(p)))) \in denied
        /\ childExitCode[p] = None

\* The lock file whose open was last refused to p with a sharing violation.
WaitsFor(p) ==
    FullPath(currentDirectory[p],
             IF waiting[p] = "source" THEN SourceLockPath(Node(p))
             ELSE DriveLockPath(Node(p)))

\* p was refused a lock file that another instance has open now.
Contended(p) ==
    /\ waiting[p] # "none"
    /\ ~Ended(p)
    /\ \E q \in Inst \ {p} : WaitsFor(p) \in OpenFiles(q)

\* The lock file open p is about to make ends in a sharing violation.
Refused(p) ==
    \/ /\ pc[p] = "srclock"
       /\ IsDirectory(Node(p).szSourceDirectory)
       /\ CreateFile(p, SourceLockPath(Node(p))) = "sharing"
    \/ /\ pc[p] = "drvlock"
       /\ CreateFile(p, DriveLockPath(Node(p))) = "sharing"

\* C15 as stated: a sharing violation on a lock file never makes the instance
\* exit, and while another instance keeps that lock file open the waiting
\* instance neither ends nor goes past the letter it is waiting for.
C15_ContentionNeverSurfaces ==
    [][\A p \in Inst :
          /\ (Refused(p) \/ Contended(p)) => ~Ended(p)'
          /\ Contended(p) => i'[p] = i[p]]_vars

\* C15 amended: a sharing violation never makes the instance exit; at the
\* source lock the instance stays at its letter while another instance has
\* the file open; at the second lock it starts over at MapDrive and leaves
\* the letter exactly when the enumeration that follows verifies the slot.
C15_ContentionRetried ==
    [][\A p \in Inst :
          /\ (Refused(p) \/ Contended(p)) => ~Ended(p)'
          /\ (Contended(p) /\ waiting[p] = "source") => i'[p] = i[p]
          /\ (Refused(p) /\ pc[p] = "drvlock" /\ pc'[p] # pc[p]) => pc'[p] = "map"
          /\ (Contended(p) /\ i'[p] # i[p]) =>
                (pc[p] = "enum" /\ IsVerified(Enumerated(p)[i[p]]))]_vars

\* An instance refused at the second lock has mapped its letter again and is
\* about to pass verification while the other instance still has the lock
\* file open.
C15_Witness ==
    \E p \in Inst :
        /\ Contended(p) /\ waiting[p] = "drive"
        /\ pc[p] = "enum" /\ IsVerified(Enumerated(p)[i[p]])

\* The step of p is the call MapDrive(pListNode) of the mapping loop.
MapCall(p) == pc[p] = "map" /\ pc'[p] = "enum"
AllSourceLocksHeld(p) ==
    \A n \in DOMAIN pOrderedSubstList[p] : pOrderedSubstList[p][n].hLockFile = "open"

\* The step of p stores the source lock handle of slot n.
SourceLockTaken(p, n) ==
    /\ n \in DOMAIN pOrderedSubstList[p] \cap DOMAIN pOrderedSubstList'[p]
    /\ pOrderedSubstList[p][n].hLockFile = "invalid"
    /\ pOrderedSubstList'[p][n].hLockFile = "open"

\* C16: an instance calls MapDrive for no slot before it holds the source
\* locks of all its slots, and it takes the source locks in ascending letter
\* order: when it takes the lock of a slot it holds those of all lower
\* letters and none of a higher letter.
C16_TwoPhaseOrdering ==
    [][\A p \in Inst :
          /\ MapCall(p) => AllSourceLocksHeld(p)
          /\ \A n \in 0..(NUMBER_DEFINABLE_SUBST - 1) :
                SourceLockTaken(p, n) =>
                    \A m \in DOMAIN pOrderedSubstList[p] :
                        /\ m < n => pOrderedSubstList[p][m].hLockFile = "open"
                        /\ m > n => pOrderedSubstList[p][m].hLockFile = "invalid"]_vars

\* An instance with two letters is in the mapping loop for the second one.
C16_Witness ==
    \E p \in Inst :
        /\ Cardinality(DOMAIN pOrderedSubstList[p]) = 2
        /\ pc[p] = "enum" /\ i[p] = 1
        /\ AllSourceLocksHeld(p)

\* ExecuteProcess of p has started a child.
Launched(p) == pc[p] = "child" \/ childExitCode[p] # None
AllVerified(p) == verified[p] = DOMAIN pOrderedSubstList[p]

\* C17: a child is started only by an instance all of whose slots have passed
\* the verification test, and an instance that ended during setup, before
\* all slots were verified, has reported failure and started no child.
C17_LaunchOnlyVerified ==
    \A p \in Inst :
        /\ Launched(p) => AllVerified(p)
        /\ (pc[p] = "done" /\ ~AllVerified(p)) =>
               (exitCode[p] = DWORD(0, 1) /\ ~Launched(p))

\* A child runs for an instance with two verified letters.
C17_Witness ==
    \E p \in Inst :
        /\ pc[p] = "child"
        /\ Cardinality(DOMAIN pOrderedSubstList[p]) = 2
        /\ AllVerified(p)

\* The sentinel file at the root of a slot's drive: <letter>:\.SubstLock
DriveRootSentinel(node) == <<node.szDriveLetter, ":", "\\">> \o SUBST_FILE_NAME

\* C18: on a mismatch the second lock is attempted on the sentinel file at
\* the root of the slot's drive: the path handed to CreateFile is exactly
\* <letter>:\.SubstLock
C18_DriveRootLockPath ==
    \A p \in Inst :
        pc[p] = "drvlock" => DriveLockPath(Node(p)) = DriveRootSentinel(Node(p))

\* p is in its mapping loop (844-927).
InSetup(p) == pc[p] \in {"map", "enum", "drvlock", "attr", "release", "unmap", "close"}
DriveLockFile(p) == FullPath(currentDirectory[p], DriveLockPath(Node(p)))

C20_LockHandleDiscipline ==
    \A p \in Inst :
        /\ Cardinality(DriveLocksHeld(p)) <= 1
        /\ pc[p] = "drvlock" => DriveLocksHeld(p) = {}

\* p has acquired the second lock and neither branch of the loop body
\* applies: the mapped path of its slot is absent.
FallsThrough(p) ==
    /\ pc[p] = "drvlock"
    /\ CreateFile(p, DriveLockPath(Node(p))) = "ok"
    /\ ~IsMappedElsewhere(Node(p))

\* C21: the end of the mapping loop body is never reached: no instance
\* acquires the second lock while the mapped path of its slot is absent.
C21_NeverHere == \A p \in Inst : ~FallsThrough(p)

\* p is past its locking phase and has not started cleanup.
LocksNeeded(p) == InSetup(p) \/ pc[p] \in {"exec", "child"}
InCleanup(p) == pc[p] \in {"cunmap", "cclose"}

\* The source lock handles p must hold where it stands: all of them until
\* cleanup, and in cleanup those of the slots not yet closed.
SourceHandlesValid(p) ==
    /\ LocksNeeded(p) => AllSourceLocksHeld(p)
    /\ InCleanup(p) =>
          \A n \in DOMAIN pOrderedSubstList[p] :
              n >= i[p] => pOrderedSubstList[p][n].hLockFile = "open"

\* The step changes the handle stored in slot n of p, which was open.
HandleReplaced(p, n) ==
    /\ n \in DOMAIN pOrderedSubstList[p]
    /\ pOrderedSubstList[p][n].hLockFile = "open"
    /\ \/ n \notin DOMAIN pOrderedSubstList'[p]
       \/ pOrderedSubstList'[p][n].hLockFile # "open"

\* C22: from the end of the locking phase to its own cleanup step every slot
\* holds its source lock handle, so the handle is valid at the cleanup
\* assertion; the only step that changes a stored open handle is the
\* CloseHandle of the cleanup loop for that slot.
C22_SourceHandleKept ==
    [][\A p \in Inst :
          /\ SourceHandlesValid(p)'
          /\ \A n \in 0..(NUMBER_DEFINABLE_SUBST - 1) :
                HandleReplaced(p, n) =>
                    (pc[p] = "cclose" /\ n = i[p]
                       /\ pOrderedSubstList'[p][n].hLockFile = "closed")]_vars

\* An instance with two letters has closed the first handle and stands at
\* the cleanup assertion of the second, whose handle is open.
C22_Witness ==
    \E p \in Inst :
        /\ pc[p] = "cclose" /\ i[p] = 1
        /\ DOMAIN pOrderedSubstList[p] = {0, 1}
        /\ pOrderedSubstList[p][0].hLockFile = "closed"
        /\ pOrderedSubstList[p][1].hLockFile = "open"

\* Where the cleanup loop of p stands: the slots below i are unmapped and
\* closed, those above are untouched, and slot i is unmapped exactly when
\* the loop body is past UnmapDrive.
CleanupOrdered(p) ==
    InCleanup(p) =>
        \A n \in DOMAIN pOrderedSubstList[p] :
            /\ n < i[p] => (n \in cleaned[p] /\ pOrderedSubstList[p][n].hLockFile = "closed")
            /\ n > i[p] => (n \notin cleaned[p] /\ pOrderedSubstList[p][n].hLockFile = "open")
            /\ n = i[p] => (n \in cleaned[p] <=> pc[p] = "cclose")

\* The step is the CloseHandle of the cleanup loop of p.
ClosesSourceLock(p) ==
    /\ pc[p] = "cclose"
    /\ pOrderedSubstList'[p][i[p]].hLockFile = "closed"

\* C23: cleanup visits the slots in ascending letter order, and for each slot
\* UnmapDrive is called before the source lock handle is closed: when the
\* handle is closed the letter is not mapped to the slot's source any more.
C23_CleanupOrder ==
    [][\A p \in Inst :
          /\ CleanupOrdered(p)'
          /\ (InCleanup(p) /\ InCleanup(p)') => i'[p] >= i[p]
          /\ ClosesSourceLock(p) =>
                (i[p] \in cleaned[p] /\ ~LiveIsSource(p, i[p]))]_vars

\* An instance with two letters has unmapped both and closed the handle of
\* the first; the second letter is not mapped to its source any more.
C23_Witness ==
    \E p \in Inst :
        /\ pc[p] = "cclose" /\ i[p] = 1
        /\ cleaned[p] = {0, 1}
        /\ verified[p] = {0, 1}
        /\ ~LiveIsSource(p, 1)

\* The step leaves the machine's mapping of letter n as it is.
LiveUnchanged(n) ==
    /\ n \in DOMAIN live <=> n \in DOMAIN live'
    /\ n \in DOMAIN live => live'[n] = live[n]

\* C24: while an instance holds a letter verified, from passing the test to
\* the start of its cleanup of the letter, no step of another instance
\* unmaps the letter or changes what it is mapped to.
C24_NonInterference ==
    [][\A p \in Inst : \A n \in 0..(NUMBER_DEFINABLE_SUBST - 1) :
          (Owns(p, n) /\ pc'[p] = pc[p]) => LiveUnchanged(n)]_vars

\* The locking loop of p stands at a slot whose source is no directory.
ValidationFails(p) ==
    pc[p] = "srclock" /\ ~IsDirectory(Node(p).szSourceDirectory)

\* C25: when the source of a letter fails validation in the locking loop the
\* run ends at once with exit code 1: the letter and those after it are not
\* locked, and no MapDrive has been or will be called for any letter.
C25_ValidationAbort ==
    [][\A p \in Inst :
          (ValidationFails(p) /\ pc'[p] # pc[p]) =>
              /\ FatalExit(p)
              /\ pOrderedSubstList'[p] = pOrderedSubstList[p]
              /\ \A n \in DOMAIN pOrderedSubstList[p] :
                    n >= i[p] => pOrderedSubstList[p][n].hLockFile = "invalid"
              /\ verified[p] = {} /\ iters[p] = 0
              /\ driveLockHandles[p] = {}
              /\ live' = live]_vars

\* An instance has locked its first letter and ended with code 1 at the
\* second, whose source is no directory.
C25_Witness ==
    \E p \in Inst :
        /\ pc[p] = "done" /\ exitCode[p] = DWORD(0, 1)
        /\ DOMAIN pOrderedSubstList[p] = {0, 1} /\ i[p] = 1
        /\ ~IsDirectory(Node(p).szSourceDirectory)
        /\ pOrderedSubstList[p][0].hLockFile = "open"
        /\ pOrderedSubstList[p][1].hLockFile = "invalid"
        /\ verified[p] = {}

\* p is refused a lock file in this state, or has been refused the second
\* lock and is on its way to the next open (MapDrive, GetMappedPaths).
WaitsOnContention(p) ==
    \/ Refused(p)
    \/ waiting[p] = "drive" /\ pc[p] \in {"map", "enum"}

\* The step is one of instance p.
StepOf(p) ==
    \/ pc'[p] # pc[p]
    \/ waiting'[p] # waiting[p]
    \/ pOrderedSubstList'[p] # pOrderedSubstList[p]

\* C26: the steps an instance takes while it waits on a sharing violation,
\* for a source lock or for the second lock, keep every source lock handle
\* it holds, close no handle, and leave the mappings of the letters it has
\* verified as they are.
C26_HoldWhileWaiting ==
    [][\A p \in Inst :
          (WaitsOnContention(p) /\ StepOf(p)) =>
              /\ ~Ended(p)'
              /\ DOMAIN pOrderedSubstList'[p] = DOMAIN pOrderedSubstList[p]
              /\ \A n \in DOMAIN pOrderedSubstList[p] :
                    pOrderedSubstList[p][n].hLockFile = "open" =>
                        pOrderedSubstList'[p][n].hLockFile = "open"
              /\ driveLockHandles[p] \subseteq driveLockHandles'[p]
              /\ verified[p] \subseteq verified'[p]
              /\ \A n \in verified[p] : LiveUnchanged(n)]_vars

\* An instance holds the source lock of its first letter and is refused the
\* one of its second.
C26_Witness ==
    \E p \in Inst :
        /\ pc[p] = "srclock" /\ i[p] = 1 /\ waiting[p] = "source"
        /\ Refused(p)
        /\ 0 \in DOMAIN pOrderedSubstList[p]
        /\ pOrderedSubstList[p][0].hLockFile = "open"

\* The matching slots whose source directory is longest.
LongestMatches(list, dir) ==
    {n \in MatchingSlots(list, dir) :
        \A m \in MatchingSlots(list, dir) :
            Len(list[m].szSourceDirectory) <= Len(list[n].szSourceDirectory)}
LowestOf(slots) == CHOOSE n \in slots : \A m \in slots : n <= m
Tie(p) ==
    Cardinality(LongestMatches(pOrderedSubstList[p],
                               PreparedCurrentDir(currentDirectory[p]))) >= 2

\* C27: when two slots match the current directory with the same, longest
\* length, the working directory of the child is on the letter of the lower
\* slot: a later match of equal length does not replace the earlier one.
C27_TieBreak ==
    \A p \in Inst :
        (pc[p] = "child" /\ Tie(p)) =>
            LET list == pOrderedSubstList[p]
                dir == PreparedCurrentDir(currentDirectory[p])
                first == LowestOf(LongestMatches(list, dir))
            IN  newCurrentDir[p] =
                    <<list[first].szDriveLetter, ":", "\\">>
                        \o Tail_n(dir, Len(list[first].szSourceDirectory))

\* X: and Y: both stand for c:\a\s\ and the child of a run started in
\* c:\a\s\d is given X:\d\
C27_Witness ==
    \E p \in Inst :
        /\ pc[p] = "child" /\ Tie(p)
        /\ currentDirectory[p] = <<"c", ":", "\\", "a", "\\", "s", "\\", "d">>
        /\ newCurrentDir[p] = <<"X", ":", "\\", "d", "\\">>

\* An enumeration target as the slot should hold it: lower case, without a
\* leading \??\, ending with one separator.
NormalizedTarget(target) ==
    LET lower == ToLowerStr(target)
        stripped == IF IsPrefix(MAPPED_PATH_STRING, lower)
                    THEN Tail_n(lower, Len(MAPPED_PATH_STRING)) ELSE lower
    IN  IF Len(stripped) > 0 /\ stripped[Len(stripped)] = "\\"
        THEN stripped ELSE stripped \o <<"\\">>

\* The step of p is a call of GetMappedPaths that read the subst table.
EnumerationDone(p) == pc[p] = "enum" /\ pc'[p] # "enum" /\ substWorks

\* C28: after an enumeration every slot whose letter the output lists holds
\* the normalized target of its line, and every slot whose letter the output
\* does not list holds no mapped path, not one of an earlier enumeration.
C28_InspectorSnapshot ==
    [][\A p \in Inst :
          EnumerationDone(p) =>
              \A n \in DOMAIN pOrderedSubstList'[p] :
                  pOrderedSubstList'[p][n].szMappedPath =
                      IF n \in DOMAIN live THEN NormalizedTarget(live[n]) ELSE None]_vars
====
